---- MODULE Spec2Model ----
(***************************************************************************)
(* A model of the consistent-hashing load balancer of tiberiu04/Load-      *)
(* balancer: the LRU cache (lru_cache.c), the server with its deferred     *)
(* edit queue (server.c) and the hash ring with key migration              *)
(* (load_balancer.c).                                                      *)
(*                                                                         *)
(* Pointers to servers are modelled by the server_id of the pointed        *)
(* structure (ids are unique in the ring), the heap of allocated servers   *)
(* by the function `heap`, and the ring vector main->servers by the        *)
(* sequence `servers` (C index i is position i + 1).                       *)
(***************************************************************************)
EXTENDS Integers, Sequences, FiniteSets, TLC

VARIABLES
    enable_vnodes,  \* lb->enable_vnodes
    hash_uint,      \* the injected hash of server ids (an opaque function)
    hash_string,    \* the injected hash of document names (an opaque function)
    servers,        \* lb->servers[0 .. lb->nr_servers - 1], as server ids
    max_servers,    \* lb->max_servers
    heap,           \* the allocated server structures, by server_id
    printed,        \* the responses PRINT_RESPONSE wrote during the last call
    res,            \* the response the last call returned (NoResponse: none)
    op,             \* the last call of the driver
    crashed,        \* the process was ended by a wild or NULL dereference
    issued,         \* history: the content of the latest EDIT of each name
    ring_fixed,     \* history: no EDIT was followed by a change of the ring,
                    \* and no task queue has reached its bound
    lru,            \* a cache driven directly through lru_cache.h
    lru_op,         \* the last call made on `lru` and what it returned
    put_value       \* history: the value of the latest put of each key

\* the state of the cache driven directly
cache_vars == <<lru, lru_op, put_value>>

vars == <<enable_vnodes, hash_uint, hash_string, servers, max_servers, heap,
          printed, res, op, crashed, issued, ring_fixed, cache_vars>>

----------------------------------------------------------------------------
(* Bounds of the model and constants of the program *)

\* the document names and contents the clients use
DocNames == <<"x", "y", "z">>
Contents == {"a", "b"}

\* hashes are at most MaxHash
MaxHash == 9

\* the primary ids the driver adds are at most MaxServerId
MaxServerId == 3

\* the cache sizes the driver passes to add_server are 1 .. MaxCacheSize
MaxCacheSize == 1

\* the capacities of the cache driven directly are 1 .. MaxCapacity
MaxCapacity == 3

\* lb->max_servers after init_load_balancer
MAX_SERVERS == 4

\* server.c:13 has 1000; the model scales the depth of the task queue down
MAX_TASK_QUEUE_SIZE == 2

\* the offset between the ids of a primary and of its replicas
REPLICA_OFFSET == 100000

\* init_server: local_db has cache_size * 1000 buckets
DB_CAPACITY_FACTOR == 1000

\* the NULL pointer, for strings and for servers
NULL == "NULL"
NULL_SERVER == 0

----------------------------------------------------------------------------
(* Sequence helpers *)

RemoveAt(s, i) == SubSeq(s, 1, i - 1) \o SubSeq(s, i + 1, Len(s))

InsertAt(s, i, e) == SubSeq(s, 1, i - 1) \o <<e>> \o SubSeq(s, i, Len(s))

\* the least position of s whose element satisfies P, 0 when there is none
FirstPos(s, P(_)) ==
    IF \E i \in 1..Len(s) : P(s[i])
    THEN CHOOSE i \in 1..Len(s) : P(s[i]) /\ \A j \in 1..(i - 1) : ~P(s[j])
    ELSE 0

----------------------------------------------------------------------------
(* lru_cache.c *)

\* init_lru_cache: every bucket empty, the recency list empty.  `buckets`
\* holds the non-empty chains only, by bucket index; `index` is the recency
\* list from its head (least recently used) to its tail.  A bucket entry's
\* pointer_to_node is the key held by the recency node it points to.
init_lru_cache(cache_capacity) ==
    [capacity |-> cache_capacity, size |-> 0,
     buckets |-> [i \in {} |-> <<>>], index |-> <<>>]

\* cache->buckets[i], head first
Chain(cache, i) ==
    IF i \in DOMAIN cache.buckets THEN cache.buckets[i] ELSE <<>>

\* the cache with cache->buckets[i] set to `chain`
SetChain(cache, i, chain) ==
    [cache EXCEPT !.buckets =
        [j \in (DOMAIN cache.buckets \ {i}) \cup
               (IF chain = <<>> THEN {} ELSE {i}) |->
            IF j = i THEN chain ELSE cache.buckets[j]]]

\* hash_function(key) % capacity
BucketOf(cache, key) == hash_string[key] % cache.capacity

\* the position of the key in a chain or in the recency list, 0 for none
KeyPos(nodes, key) == FirstPos(nodes, LAMBDA e : e.key = key)

\* a dll_remove_node that leaves the node in the list
dll_keep_node(index, ptr) == index

\* dll_remove_node: the recency list without the node `ptr` points to
dll_remove_node(index, ptr) ==
    IF KeyPos(index, ptr) = 0 THEN index ELSE RemoveAt(index, KeyPos(index, ptr))

\* dll_add_nth_node(cache->index, cache->index->size, data): a copy of the
\* entry becomes the tail
AddTail(index, key, value) == Append(index, [key |-> key, value |-> value])

Entry(key, value) == [key |-> key, value |-> value, pointer_to_node |-> key]

\* a put of an existing key that replaces the value where the entry stands
PutExistingInPlace(cache, key, value, b, chain, p) ==
    [SetChain(cache, b, [chain EXCEPT ![p] = Entry(key, value)]) EXCEPT
        !.index = [k \in 1..Len(cache.index) |->
                      IF cache.index[k].key = key
                      THEN [key |-> key, value |-> value] ELSE cache.index[k]]]

\* lru_cache_put, lines 340-352: the key exists and its back-reference
\* holds it: new value, recency node moved to the tail
PutExisting(cache, key, value, b, chain, p) ==
    [SetChain(cache, b, [chain EXCEPT ![p] = Entry(key, value)]) EXCEPT
        !.index = AddTail(dll_remove_node(cache.index, chain[p].pointer_to_node),
                          key, value)]

\* an eviction that detaches the tail of the recency list, the most recently
\* used entry
EvictNewest(cache, ev) ==
    [SetChain(cache, BucketOf(cache, cache.index[Len(cache.index)].key),
              SelectSeq(Chain(cache, BucketOf(cache,
                                              cache.index[Len(cache.index)].key)),
                        LAMBDA e : e.key # cache.index[Len(cache.index)].key))
     EXCEPT !.index = SubSeq(cache.index, 1, Len(cache.index) - 1),
            !.size = cache.size - 1]

\* lru_cache_put, lines 361-393: the head of the recency list is detached
\* and its bucket entry unlinked
EvictHead(cache, ev) ==
    [(IF KeyPos(Chain(cache, BucketOf(cache, ev)), ev) = 0 THEN cache
      ELSE SetChain(cache, BucketOf(cache, ev),
                    RemoveAt(Chain(cache, BucketOf(cache, ev)),
                             KeyPos(Chain(cache, BucketOf(cache, ev)), ev))))
     EXCEPT !.index = Tail(cache.index), !.size = cache.size - 1]

\* lru_cache_put, lines 398-408: a new entry at the front of its bucket and
\* at the tail of the recency list
AddEntry(cache, key, value, b) ==
    [SetChain(cache, b, <<Entry(key, value)>> \o Chain(cache, b)) EXCEPT
        !.index = AddTail(cache.index, key, value),
        !.size = cache.size + 1]

\* lru_cache_put, lines 359-410, on the cache c0 the search left: eviction
\* when full, then the new entry unless the key was found
PutRest(c0, key, value, b, found, full) ==
    [cache |-> IF found
               THEN (IF full THEN EvictHead(c0, c0.index[1].key) ELSE c0)
               ELSE AddEntry(IF full THEN EvictHead(c0, c0.index[1].key) ELSE c0,
                             key, value, b),
     ret |-> TRUE,
     evicted_key |-> IF full THEN c0.index[1].key ELSE NULL]

PutSearch(cache, key, value, b, chain, p) ==
    IF p # 0 /\ KeyPos(cache.index, chain[p].pointer_to_node) # 0
             /\ chain[p].pointer_to_node = key
    THEN [cache |-> PutExisting(cache, key, value, b, chain, p),
          ret |-> TRUE, evicted_key |-> NULL]
    ELSE \* a key found whose back-reference holds another key has only its
         \* value replaced (found = 1, no return)
         PutRest(IF p # 0
                 THEN SetChain(cache, b, [chain EXCEPT ![p].value = value])
                 ELSE cache,
                 key, value, b, p # 0,
                 cache.size >= cache.capacity /\ cache.index # <<>>)

\* lru_cache_put: the cache after the put, the returned bool, *evicted_key
\* (NULL when the put does not write it)
lru_cache_put(cache, key, value) ==
    PutSearch(cache, key, value, BucketOf(cache, key),
              Chain(cache, BucketOf(cache, key)),
              KeyPos(Chain(cache, BucketOf(cache, key)), key))

\* a get that does not promote the entry it found
GetFoundNoPromote(cache, key, b, chain, p) ==
    [cache |-> cache, value |-> chain[p].value]

\* lru_cache_get, lines 427-438: the entry found at chain[p]
GetFound(cache, key, b, chain, p) ==
    IF chain[p].pointer_to_node = key /\ KeyPos(cache.index, key) # 0
    THEN [cache |->
            [SetChain(cache, b, <<Entry(key, chain[p].value)>> \o RemoveAt(chain, p))
               EXCEPT !.index = AddTail(dll_remove_node(cache.index, key),
                                        key, chain[p].value)],
          value |-> chain[p].value]
    ELSE [cache |-> cache, value |-> chain[p].value]

GetSearch(cache, key, b, chain, p) ==
    IF p = 0 THEN [cache |-> cache, value |-> NULL]
    ELSE GetFound(cache, key, b, chain, p)

\* lru_cache_get: the cache (a hit promotes the entry) and the value, NULL
\* on a miss
lru_cache_get(cache, key) ==
    GetSearch(cache, key, BucketOf(cache, key),
              Chain(cache, BucketOf(cache, key)),
              KeyPos(Chain(cache, BucketOf(cache, key)), key))

\* a remove that unlinks the bucket entry and leaves the recency node
RemoveSearchLeaveNode(cache, key, b, chain, p) ==
    IF p = 0 THEN cache
    ELSE [SetChain(cache, b, RemoveAt(chain, p)) EXCEPT !.size = cache.size - 1]

\* a remove that forgets cache->size--
RemoveSearchKeepSize(cache, key, b, chain, p) ==
    IF p = 0 THEN cache
    ELSE [SetChain(cache, b, RemoveAt(chain, p)) EXCEPT
            !.index = dll_remove_node(cache.index, chain[p].pointer_to_node)]

RemoveSearch(cache, key, b, chain, p) ==
    IF p = 0 THEN cache
    ELSE [SetChain(cache, b, RemoveAt(chain, p)) EXCEPT
            !.index = dll_remove_node(cache.index, chain[p].pointer_to_node),
            !.size = cache.size - 1]

\* lru_cache_remove: the cache without the key, bucket entry and recency
\* node both unlinked
lru_cache_remove(cache, key) ==
    RemoveSearch(cache, key, BucketOf(cache, key),
                 Chain(cache, BucketOf(cache, key)),
                 KeyPos(Chain(cache, BucketOf(cache, key)), key))

----------------------------------------------------------------------------
(* server.c *)

\* init_server: a server with an empty cache, database and task queue.  The
\* task queue is the sequence buff[read_idx], ..., buff[write_idx - 1] of
\* the circular buffer: q_enqueue appends, q_dequeue takes the head.
init_server(size, id, orig) ==
    [cache |-> init_lru_cache(size),
     local_db |-> init_lru_cache(size * DB_CAPACITY_FACTOR),
     task_queue |-> <<>>,
     server_id |-> id,
     hash |-> hash_uint[id],
     original_server |-> orig]

\* a q_enqueue that, on a full queue, overwrites the oldest element
q_enqueue_overwrite(q, new_data) ==
    IF Len(q) = MAX_TASK_QUEUE_SIZE THEN Append(Tail(q), new_data)
    ELSE Append(q, new_data)

\* a q_enqueue that does not test the bound
q_enqueue_unchecked(q, new_data) == Append(q, new_data)

\* q_enqueue: a full queue drops the new element
q_enqueue(q, new_data) ==
    IF Len(q) = MAX_TASK_QUEUE_SIZE THEN q ELSE Append(q, new_data)

q_get_size(q) == Len(q)

\* a q_dequeue that takes the newest element
q_dequeue_newest(q) == [item |-> q[Len(q)], queue |-> SubSeq(q, 1, Len(q) - 1)]

\* q_dequeue: the element at read_idx and the queue without it
q_dequeue(q) == [item |-> Head(q), queue |-> Tail(q)]

\* a server that uses its own storage, replica or not
PrimarySelf(h, serv) == serv

\* one primary for every server, whatever its family
PrimaryOfAll(h, serv) == CHOOSE p \in DOMAIN h : h[p].original_server = NULL_SERVER

\* the server whose storage a request to `serv` uses
Primary(h, serv) ==
    IF h[serv].original_server # NULL_SERVER
    THEN h[serv].original_server ELSE serv

create_response(log, resp, id) ==
    [server_log |-> log, server_response |-> resp, server_id |-> id]

Log(kind, doc, evicted, depth) ==
    [kind |-> kind, doc |-> doc, evicted |-> evicted, depth |-> depth]

Body(msg, text) == [msg |-> msg, text |-> text]

NoResponse == create_response(Log("NULL", NULL, NULL, 0), Body("NULL", NULL), 0)

\* a log that is LOG_MISS whether or not the put evicted
MissLogNoEvict(doc_name, evicted_key) == Log("MISS", doc_name, NULL, 0)

\* LOG_EVICT when the put into the cache wrote evicted_key, else LOG_MISS
MissLog(doc_name, evicted_key) ==
    IF evicted_key # NULL THEN Log("EVICT", doc_name, evicted_key, 0)
    ELSE Log("MISS", doc_name, NULL, 0)

\* an edit that writes the cache and not the database
EditStoreCacheOnly(h, serv, s, doc_name, pc, pd, in_cache, in_db) ==
    [heap |-> [h EXCEPT ![s].cache = pc.cache],
     resp |-> create_response(
                IF in_cache THEN Log("HIT", doc_name, NULL, 0)
                ELSE MissLog(doc_name, pc.evicted_key),
                Body(IF in_cache \/ in_db THEN "MSG_B" ELSE "MSG_C", doc_name),
                h[serv].server_id)]

\* server_edit_document, the three branches: pc and pd are the puts into
\* the cache and into the database
EditStore(h, serv, s, doc_name, pc, pd, in_cache, in_db) ==
    [heap |-> [h EXCEPT ![s].cache = pc.cache, ![s].local_db = pd.cache],
     resp |-> create_response(
                IF in_cache THEN Log("HIT", doc_name, NULL, 0)
                ELSE MissLog(doc_name, pc.evicted_key),
                Body(IF in_cache \/ in_db THEN "MSG_B" ELSE "MSG_C", doc_name),
                h[serv].server_id)]

\* g is the lookup in the cache; d, the lookup in the database, is made on a
\* cache miss only
EditLookup(h, serv, s, doc_name, doc_content, g, d) ==
    EditStore(h, serv, s, doc_name,
              lru_cache_put(g.cache, doc_name, doc_content),
              lru_cache_put(IF g.value = NULL THEN d.cache ELSE h[s].local_db,
                            doc_name, doc_content),
              g.value # NULL,
              g.value = NULL /\ d.value # NULL)

\* server_edit_document: the heap after the edit and its response
server_edit_document(h, serv, doc_name, doc_content) ==
    EditLookup(h, serv, Primary(h, serv), doc_name, doc_content,
               lru_cache_get(h[Primary(h, serv)].cache, doc_name),
               lru_cache_get(h[Primary(h, serv)].local_db, doc_name))

\* server_get_document, lines 259-275: found in the database, installed in
\* the cache by the put pc
GetInstall(h, serv, s, doc_name, d, pc) ==
    [heap |-> [h EXCEPT ![s].cache = pc.cache, ![s].local_db = d.cache],
     resp |-> create_response(MissLog(doc_name, pc.evicted_key),
                              Body("DOC", d.value), h[serv].server_id)]

GetLookup(h, serv, s, doc_name, g, d) ==
    IF g.value # NULL
    THEN [heap |-> [h EXCEPT ![s].cache = g.cache],
          resp |-> create_response(Log("HIT", doc_name, NULL, 0),
                                   Body("DOC", g.value), h[serv].server_id)]
    ELSE IF d.value # NULL
    THEN GetInstall(h, serv, s, doc_name, d,
                    lru_cache_put(g.cache, doc_name, d.value))
    ELSE [heap |-> h,
          resp |-> create_response(Log("FAULT", doc_name, NULL, 0),
                                   Body("NULL", NULL), h[serv].server_id)]

\* server_get_document: the heap after the read and its response
server_get_document(h, serv, doc_name) ==
    GetLookup(h, serv, Primary(h, serv), doc_name,
              lru_cache_get(h[Primary(h, serv)].cache, doc_name),
              lru_cache_get(h[Primary(h, serv)].local_db, doc_name))

\* execute_edit_tasks_for_document, lines 314-316: the head of the queue of
\* the primary s is dequeued and applied through serv
ExecuteHead(h, serv, s) ==
    server_edit_document(
        [h EXCEPT ![s].task_queue = q_dequeue(h[s].task_queue).queue], serv,
        q_dequeue(h[s].task_queue).item.doc_name,
        q_dequeue(h[s].task_queue).item.doc_content)

\* execute_edit_tasks_for_document: the queue of serv's primary is emptied,
\* each edit applied and its response printed (appended to out), in the
\* order of the queue
RECURSIVE ExecuteTasks(_, _, _)
ExecuteNext(e, serv, out) == ExecuteTasks(e.heap, serv, Append(out, e.resp))

ExecuteTasks(h, serv, out) ==
    IF q_get_size(h[Primary(h, serv)].task_queue) = 0
    THEN [heap |-> h, out |-> out]
    ELSE ExecuteNext(ExecuteHead(h, serv, Primary(h, serv)), serv, out)

execute_edit_tasks_for_document(h, serv) == ExecuteTasks(h, serv, <<>>)

\* server_handle_request, lines 347-357
HandleEdit(h, serv, s, req, q) ==
    [heap |-> [h EXCEPT ![s].task_queue = q],
     out |-> <<>>,
     resp |-> create_response(Log("LAZY_EXEC", NULL, NULL, q_get_size(q)),
                              Body("MSG_A", req.doc_name), h[serv].server_id)]

\* server_handle_request, lines 359-360
HandleGet(f, g) == [heap |-> g.heap, out |-> f.out, resp |-> g.resp]

HandleFlushed(f, serv, doc_name) ==
    HandleGet(f, server_get_document(f.heap, serv, doc_name))

\* server_handle_request: EDIT is queued, GET flushes the queue and reads
server_handle_request(h, serv, req) ==
    IF req.type = "EDIT_DOCUMENT"
    THEN HandleEdit(h, serv, Primary(h, serv), req,
                    q_enqueue(h[Primary(h, serv)].task_queue, req))
    ELSE HandleFlushed(execute_edit_tasks_for_document(h, serv), serv,
                       req.doc_name)

----------------------------------------------------------------------------
(* load_balancer.c *)

\* the primary family of a ring entry
Family(id) == id % REPLICA_OFFSET

\* get_insert_poz, lines 52-64: the loop stops at the first i (a position,
\* C index i - 1) that satisfies one of its two tests
PozStop(h, ring, i, hash) ==
    \/ /\ h[ring[i]].hash > hash
       /\ (IF i = 1 THEN 0 ELSE h[ring[i - 1]].hash) < hash
    \/ h[ring[i]].hash = hash

PozAt(h, ring, i, hash, id) ==
    IF i = 0 THEN -1
    ELSE IF h[ring[i]].hash # hash THEN i - 1
    ELSE IF h[ring[i]].server_id < id THEN i - 1 ELSE i

\* get_insert_poz: the C index at which (hash, id) is inserted into the
\* ring of n entries, -1 for "append"
get_insert_poz(h, ring, n, hash, id) ==
    IF h[ring[n]].hash < hash THEN -1
    ELSE IF h[ring[n]].hash = hash
    THEN IF h[ring[n]].server_id < id THEN -1 ELSE n - 1
    ELSE PozAt(h, ring,
               FirstPos([i \in 1..n |-> i], LAMBDA i : PozStop(h, ring, i, hash)),
               hash, id)

\* the least element of a non-empty set of numbers
Min(S) == CHOOSE m \in S : \A k \in S : m <= k

\* get_all_keys: the keys of s->local_db, bucket by bucket, each chain from
\* its head
RECURSIVE KeysOfBuckets(_, _)
KeysOfBuckets(db, todo) ==
    IF todo = {} THEN <<>>
    ELSE [k \in 1..Len(db.buckets[Min(todo)]) |-> db.buckets[Min(todo)][k].key]
         \o KeysOfBuckets(db, todo \ {Min(todo)})

get_all_keys(h, s) == KeysOfBuckets(h[s].local_db, DOMAIN h[s].local_db.buckets)

should_redistribute(new_server, next_server, pos, hash) ==
    \/ pos = 0 /\ (hash > next_server.hash \/ hash <= new_server.hash)
    \/ pos # 0 /\ pos # -1 /\ hash <= new_server.hash
    \/ pos = -1 /\ hash > next_server.hash /\ hash <= new_server.hash

\* redistribute_keys, lines 157-171: the entry `serv` a key is attributed to
\* among main->servers[0 .. nr_servers - 1], the new family left out
KeyServerAt(ring, k) == IF k = 0 THEN NULL_SERVER ELSE ring[k]

KeyServer(h, ring, n, new_s, hash) ==
    IF hash >= h[ring[n]].hash /\ Family(ring[n]) # Family(new_s)
    THEN ring[1]
    ELSE KeyServerAt(ring, FirstPos(SubSeq(ring, 1, n),
                                    LAMBDA e : hash <= h[e].hash
                                               /\ Family(e) # Family(new_s)))

\* a move that leaves the key in the cache of the donor
MoveValueKeepCache(h, key, next, new, g) ==
    [h EXCEPT ![new].local_db = lru_cache_put(h[new].local_db, key, g.value).cache,
              ![next].local_db = lru_cache_remove(g.cache, key)]

\* redistribute_keys, lines 180-192, with g the lookup of the key in the
\* donor's database: put at the new primary, removed from the donor's cache
\* and database
MoveValue(h, key, next, new, g) ==
    [h EXCEPT ![new].local_db = lru_cache_put(h[new].local_db, key, g.value).cache,
              ![next].cache = lru_cache_remove(h[next].cache, key),
              ![next].local_db = lru_cache_remove(g.cache, key)]

MoveKey(h, key, next, new) ==
    MoveValue(h, key, next, new, lru_cache_get(h[next].local_db, key))

\* redistribute_keys, lines 172-174: whether the key moves
Moves(h, ring, n, new_s, next_s, poz, hash) ==
    /\ should_redistribute(h[new_s], h[next_s], poz, hash)
    /\ (~enable_vnodes \/ KeyServer(h, ring, n, new_s, hash) = next_s)

\* redistribute_keys: the heap after the keys of key_list that qualify were
\* moved from next_s's primary to new_s's primary
RECURSIVE redistribute_keys(_, _, _, _, _, _, _)
redistribute_keys(h, ring, n, key_list, new_s, next_s, poz) ==
    IF key_list = <<>> THEN h
    ELSE redistribute_keys(
             IF Moves(h, ring, n, new_s, next_s, poz, hash_string[Head(key_list)])
             THEN MoveKey(h, Head(key_list), Primary(h, next_s), Primary(h, new_s))
             ELSE h,
             ring, n, Tail(key_list), new_s, next_s, poz)

\* find_server_index: the position of server_id in the ring, 0 for -1
find_server_index(ring, server_id) ==
    FirstPos(ring, LAMBDA e : e = server_id)

\* find_next_server: the first entry after C index current_index, going
\* round main->servers[0 .. nr_servers - 1], of another family; NULL_SERVER
\* when there is none
NextAt(ring, n, current_index, k) ==
    IF k = 0 THEN NULL_SERVER ELSE ring[((current_index + k) % n) + 1]

find_next_server(ring, n, current_index) ==
    NextAt(ring, n, current_index,
           FirstPos([k \in 1..(n - 1) |-> k],
                    LAMBDA k : Family(ring[((current_index + k) % n) + 1])
                               # Family(ring[current_index + 1])))

\* insert_server, lines 241-243, 252-258, 273-275, 279-285: the donor's
\* queue was flushed (f); its primary's keys are redistributed
MigrateFlushed(f, ring, n, s, next_server, poz) ==
    [heap |-> redistribute_keys(f.heap, ring, n,
                                get_all_keys(f.heap, Primary(f.heap, next_server)),
                                s, next_server, poz),
     out |-> f.out]

Migrate(h, ring, n, s, next_server, poz) ==
    IF next_server = NULL_SERVER THEN [heap |-> h, out |-> <<>>]
    ELSE MigrateFlushed(execute_edit_tasks_for_document(h, next_server),
                        ring, n, s, next_server, poz)

\* insert_server, lines 245-250: the first entry of another family
FirstOther(ring, i) == IF i = 0 THEN NULL_SERVER ELSE ring[i]

\* insert_server: the donor, in the vector `array` that holds s already
\* while nr_servers is still n
NextServer(ring, array, n, s, poz) ==
    IF ~enable_vnodes
    THEN IF poz = -1 THEN array[1] ELSE array[poz + 2]
    ELSE IF poz = -1
    THEN FirstOther(ring, FirstPos(ring, LAMBDA e : Family(e) # Family(s)))
    ELSE find_next_server(array, n, poz)

InsertDone(m, array) == [heap |-> m.heap, servers |-> array, out |-> m.out]

InsertInto(h, ring, array, n, s, poz) ==
    InsertDone(Migrate(h, array, n, s, NextServer(ring, array, n, s, poz), poz),
               array)

InsertAtPoz(h, ring, s, poz) ==
    InsertInto(h, ring,
               IF poz = -1 THEN Append(ring, s) ELSE InsertAt(ring, poz + 1, s),
               Len(ring), s, poz)

\* insert_server: the ring with s inserted, the heap after migration, and
\* the responses printed by the flush
insert_server(h, ring, s) ==
    InsertAtPoz(h, ring, s, get_insert_poz(h, ring, Len(ring), h[s].hash, s))

\* loader_add_server, lines 300-315: the primary and, with virtual nodes,
\* its two replicas are allocated
FamilyIds(server_id) ==
    IF enable_vnodes
    THEN {server_id, server_id + REPLICA_OFFSET, server_id + 2 * REPLICA_OFFSET}
    ELSE {server_id}

AllocFamily(h, server_id, size) ==
    [i \in DOMAIN h \cup FamilyIds(server_id) |->
        IF i \in FamilyIds(server_id)
        THEN init_server(size, i, IF i = server_id THEN NULL_SERVER ELSE server_id)
        ELSE h[i]]

\* an insert_server after an earlier one (r): the printed responses add up
AfterOut(out, i) == [heap |-> i.heap, servers |-> i.servers, out |-> out \o i.out]

InsertNext(r, s) == AfterOut(r.out, insert_server(r.heap, r.servers, s))

\* loader_add_server, lines 318-342, on the heap h0 that holds the new
\* family: the ring, heap and printed responses after the insertions
InsertFamily(h0, ring, server_id) ==
    IF ~enable_vnodes
    THEN IF Len(ring) = 0
         THEN [heap |-> h0, servers |-> <<server_id>>, out |-> <<>>]
         ELSE insert_server(h0, ring, server_id)
    ELSE InsertNext(
            InsertNext(
               IF Len(ring) = 0
               THEN [heap |-> h0, servers |-> <<server_id>>, out |-> <<>>]
               ELSE insert_server(h0, ring, server_id),
               server_id + REPLICA_OFFSET),
            server_id + 2 * REPLICA_OFFSET)

\* loader_add_server, lines 329-333: the vector doubles
Grown(n, max) == IF n # 0 /\ max <= n + 3 THEN max * 2 ELSE max

\* loader_add_server: the ring, heap and printed responses after
\* add_server(server_id, size)
loader_add_server(h, ring, server_id, size) ==
    InsertFamily(AllocFamily(h, server_id, size), ring, server_id)

\* one copy of remove_replicas or of loader_remove_server, with g the
\* lookup of the key in the target's database: the target keeps the key
CopyValue(h, key, target, dest, g) ==
    IF dest = target
    THEN [h EXCEPT ![dest].local_db = lru_cache_put(g.cache, key, g.value).cache]
    ELSE [h EXCEPT ![target].local_db = g.cache,
                   ![dest].local_db =
                       lru_cache_put(h[dest].local_db, key, g.value).cache]

\* remove_replicas, lines 375-382, and loader_remove_server, lines 421-426:
\* every key of the target's database is copied to dest
RECURSIVE CopyKeys(_, _, _, _)
CopyKeys(h, keys, target, dest) ==
    IF keys = <<>> THEN h
    ELSE CopyKeys(CopyValue(h, Head(keys), target, dest,
                            lru_cache_get(h[target].local_db, Head(keys))),
                  Tail(keys), target, dest)

\* one round of remove_replicas, lines 388-395: copied, then removed from
\* the target
MoveOut(h, key, target, dest, g) ==
    [h EXCEPT ![dest].local_db = lru_cache_put(h[dest].local_db, key, g.value).cache,
              ![target].local_db = lru_cache_remove(g.cache, key)]

\* remove_replicas, lines 388-395: keys[j] is copied and removed from the
\* target while j < target_server->local_db->size, the size shrinking
RECURSIVE MoveKeys(_, _, _, _, _)
MoveKeys(h, keys, j, target, dest) ==
    IF ~(j < h[target].local_db.size) THEN h
    ELSE MoveKeys(MoveOut(h, keys[j + 1], target, dest,
                          lru_cache_get(h[target].local_db, keys[j + 1])),
                  keys, j + 1, target, dest)

\* what a step of remove_replicas gives: the heap, and whether the step
\* dereferenced a NULL next_server
Step(h, crash) == [heap |-> h, crashed |-> crash]

\* remove_replicas, lines 369-385: the primary's keys are copied to the
\* neighbour of each replica found in the ring
RECURSIVE ReplicaCopies(_, _, _, _)
ReplicaCopy(h, ring, target, i, keys, next_server) ==
    IF keys = <<>> THEN ReplicaCopies(h, ring, target, i + 1)
    ELSE IF next_server = NULL_SERVER THEN Step(h, TRUE)
    ELSE ReplicaCopies(CopyKeys(h, keys, target, Primary(h, next_server)),
                       ring, target, i + 1)

ReplicaCopies(h, ring, target, i) ==
    IF i > 2 THEN Step(h, FALSE)
    ELSE IF find_server_index(ring, target + i * REPLICA_OFFSET) = 0
    THEN ReplicaCopies(h, ring, target, i + 1)
    ELSE ReplicaCopy(h, ring, target, i, get_all_keys(h, target),
                     find_next_server(ring, Len(ring),
                        find_server_index(ring, target + i * REPLICA_OFFSET) - 1))

\* remove_replicas, lines 386-396: the primary's keys are moved to its own
\* neighbour
PrimaryMove(r, target, keys, next_server) ==
    IF r.crashed \/ keys = <<>> THEN r
    ELSE IF next_server = NULL_SERVER THEN Step(r.heap, TRUE)
    ELSE Step(MoveKeys(r.heap, keys, 0, target, Primary(r.heap, next_server)),
              FALSE)

ReplicasCopied(r, ring, target, idx) ==
    PrimaryMove(r, target, get_all_keys(r.heap, target),
                find_next_server(ring, Len(ring), idx - 1))

\* remove_replicas: the heap after the primary's keys went to the
\* neighbours of its replicas and of itself
remove_replicas(h, ring, server_id) ==
    IF find_server_index(ring, server_id % REPLICA_OFFSET) = 0
    THEN Step(h, FALSE)
    ELSE ReplicasCopied(ReplicaCopies(h, ring, server_id % REPLICA_OFFSET, 1),
                        ring, server_id % REPLICA_OFFSET,
                        find_server_index(ring, server_id % REPLICA_OFFSET))

\* free_server and free: the heap without the server
free_server(h, s) == [i \in DOMAIN h \ {s} |-> h[i]]

\* what the migration of one entry of loader_remove_server gives
Migrated(h, out, crash) == [heap |-> h, out |-> out, crashed |-> crash]

\* loader_remove_server, lines 411-415: the queue of the replica's primary
\* was flushed (f)
VnodesFlushed(f, ring, serv) ==
    Migrated(remove_replicas(f.heap, ring, serv).heap, f.out,
             remove_replicas(f.heap, ring, serv).crashed)

\* loader_remove_server, lines 418-427: the queue of the departing server
\* was flushed (f)
PlainFlushed(f, s, next_s) ==
    Migrated(CopyKeys(f.heap, get_all_keys(f.heap, s), s, next_s), f.out, FALSE)

\* loader_remove_server, lines 406-428, for the entry at position i
MigrateOut(h, ring, i, ok, next_s) ==
    IF enable_vnodes /\ ok = 0
    THEN IF h[ring[i]].original_server # NULL_SERVER
         THEN VnodesFlushed(
                 execute_edit_tasks_for_document(h, h[ring[i]].original_server),
                 ring, h[ring[i]].original_server)
         ELSE Migrated(h, <<>>, FALSE)
    ELSE IF ~enable_vnodes
    THEN PlainFlushed(execute_edit_tasks_for_document(h, ring[i]), ring[i], next_s)
    ELSE Migrated(h, <<>>, FALSE)

\* loader_remove_server, lines 402-443: the loop over the ring from
\* position i (C index i - 1) on; ok is ok[server_id]
RECURSIVE RemoveLoop(_, _, _, _, _, _)
\* a removal that forgets i--: the entry that took the place of the removed
\* one is not examined
RemoveEntrySkip(m, ring, i, out, server_id) ==
    IF m.crashed
    THEN [heap |-> m.heap, servers |-> ring, out |-> out \o m.out,
          crashed |-> TRUE]
    ELSE RemoveLoop(free_server(m.heap, ring[i]), RemoveAt(ring, i),
                    i + 1, 1, out \o m.out, server_id)

RemoveEntry(m, ring, i, out, server_id) ==
    IF m.crashed
    THEN [heap |-> m.heap, servers |-> ring, out |-> out \o m.out,
          crashed |-> TRUE]
    ELSE RemoveLoop(free_server(m.heap, ring[i]), RemoveAt(ring, i),
                    i, 1, out \o m.out, server_id)

\* a loop that compares the hash of the entry, not its id, with server_id
RemoveLoopByHash(h, ring, i, ok, out, server_id) ==
    IF i > Len(ring)
    THEN [heap |-> h, servers |-> ring, out |-> out, crashed |-> FALSE]
    ELSE IF h[ring[i]].hash % REPLICA_OFFSET # server_id
    THEN RemoveLoop(h, ring, i + 1, ok, out, server_id)
    ELSE RemoveEntry(MigrateOut(h, ring, i, ok,
                                IF i = Len(ring) THEN ring[1] ELSE ring[i + 1]),
                     ring, i, out, server_id)

RemoveLoop(h, ring, i, ok, out, server_id) ==
    IF i > Len(ring)
    THEN [heap |-> h, servers |-> ring, out |-> out, crashed |-> FALSE]
    ELSE IF Family(ring[i]) # server_id
    THEN RemoveLoop(h, ring, i + 1, ok, out, server_id)
    ELSE RemoveEntry(MigrateOut(h, ring, i, ok,
                                IF i = Len(ring) THEN ring[1] ELSE ring[i + 1]),
                     ring, i, out, server_id)

\* loader_remove_server, lines 445-449: the vector halves
Shrunk(n, max) == IF n < max \div 2 THEN max \div 2 ELSE max

\* loader_remove_server: the ring, heap and printed responses after
\* remove_server(server_id)
loader_remove_server(h, ring, server_id) ==
    RemoveLoop(h, ring, 1, 0, <<>>, server_id)

\* loader_forward_request, lines 456-465: the entry found by the search,
\* NULL_SERVER when target_server is left uninitialised
SearchAt(ring, i) == IF i = 0 THEN NULL_SERVER ELSE ring[i]

SearchTarget(h, ring, hash) ==
    IF hash > h[ring[Len(ring)]].hash THEN ring[1]
    ELSE SearchAt(ring, FirstPos(ring, LAMBDA e : hash < h[e].hash))

\* loader_forward_request, lines 468-476: for GET under virtual nodes, the
\* first entry of the target's family whose hash exceeds the document's
ReplicaAt(ring, target, i) == IF i = 0 THEN target ELSE ring[i]

ReplicaTarget(ring, target, type, hash) ==
    IF type = "GET_DOCUMENT" /\ enable_vnodes
    THEN ReplicaAt(ring, target,
                   FirstPos(ring, LAMBDA e : Family(e) = Family(target)
                                             /\ hash < hash_uint[e]))
    ELSE target

\* loader_forward_request, lines 468-481, from the target the search left
loader_forward_request(h, ring, target, req) ==
    server_handle_request(
        h, ReplicaTarget(ring, target, req.type, hash_string[req.doc_name]), req)

----------------------------------------------------------------------------
(* The driver: add_server, remove_server and requests, one call per step *)

\* the document names and the primary ids of the run: those the hash tables
\* cover
Docs == DOMAIN hash_string

ServerIds == {id \in 1..MaxServerId : id \in DOMAIN hash_uint}

\* an id that add_server is never called with
UnknownId == MaxServerId + 1

\* hash_uint for the primaries 1 .. Len(p), with hashes p, and for their
\* first and second replicas, with hashes r1 and r2
UintTable(p, r1, r2) ==
    [i \in {id + k * REPLICA_OFFSET : id \in 1..Len(p), k \in 0..2} |->
        <<p, r1, r2>>[(i \div REPLICA_OFFSET) + 1][i % REPLICA_OFFSET]]

\* hash_string for the first Len(hs) document names
StringTable(hs) ==
    [d \in {DocNames[k] : k \in 1..Len(hs)} |->
        hs[CHOOSE k \in 1..Len(hs) : DocNames[k] = d]]

HashTables(vnodes, p, r1, r2, hs) ==
    [vnodes |-> vnodes, uint |-> UintTable(p, r1, r2), string |-> StringTable(hs)]

\* the hash tables of the runs without virtual nodes; in the second, two
\* servers have the same hash, and that hash is 0; in the third, the two
\* documents belong to two servers
PlainTables ==
    {HashTables(FALSE, <<5, 2>>, <<5, 2>>, <<5, 2>>, <<2, 4>>),
     HashTables(FALSE, <<0, 5, 0>>, <<0, 5, 0>>, <<0, 5, 0>>, <<3>>),
     HashTables(FALSE, <<2, 5>>, <<2, 5>>, <<2, 5>>, <<1, 3>>)}

\* the hash tables of the runs with virtual nodes; in the third, the hash
\* of a replica is 0
VnodeTables ==
    {HashTables(TRUE, <<1, 2>>, <<4, 5>>, <<7, 8>>, <<3, 6>>),
     HashTables(TRUE, <<7, 2, 3>>, <<1, 6, 5>>, <<4, 8, 9>>, <<0>>),
     HashTables(TRUE, <<3>>, <<5>>, <<0>>, <<4>>)}

WithinBounds(t) ==
    /\ \A i \in DOMAIN t.uint : Family(i) <= MaxServerId /\ t.uint[i] <= MaxHash
    /\ \A d \in DOMAIN t.string : t.string[d] <= MaxHash

Op(type, id, doc) == [type |-> type, id |-> id, doc |-> doc]

Request(type, doc_name, doc_content) ==
    [type |-> type, doc_name |-> doc_name, doc_content |-> doc_content]

NoneIssued == [d \in Docs |-> NULL]

\* the keys in the bucket chains of a cache, bucket by bucket
ChainKeys(cache) == KeysOfBuckets(cache, DOMAIN cache.buckets)

\* the keys a cache holds in its bucket chains
KeySet(cache) == {ChainKeys(cache)[k] : k \in 1..Len(ChainKeys(cache))}

\* a call on the cache driven directly: what was passed and what came back
\* (ret: the bool of lru_cache_put; evicted_key: *evicted_key; result: the
\* pointer lru_cache_get returned), and, as history, whether the key was in
\* the cache when the call was made
CacheCall(type, key, value, ret, evicted_key, result, present) ==
    [type |-> type, key |-> key, value |-> value, ret |-> ret,
     evicted_key |-> evicted_key, result |-> result, present |-> present]

\* no call was made on the cache yet
NoCall == CacheCall("none", NULL, NULL, FALSE, NULL, NULL, FALSE)

\* the cache driven directly, of capacity cache_capacity, after
\* init_lru_cache
CacheCreated(cache_capacity) ==
    /\ lru = init_lru_cache(cache_capacity)
    /\ lru_op = NoCall
    /\ put_value = [k \in Docs |-> NULL]

\* init_load_balancer
InitBalancer(t) ==
    /\ WithinBounds(t)
    /\ enable_vnodes = t.vnodes
    /\ hash_uint = t.uint
    /\ hash_string = t.string
    /\ servers = <<>>
    /\ max_servers = MAX_SERVERS
    /\ heap = [i \in {} |-> 0]
    /\ printed = <<>>
    /\ res = NoResponse
    /\ op = Op("init", 0, NULL)
    /\ crashed = FALSE
    /\ issued = [d \in DOMAIN t.string |-> NULL]
    /\ ring_fixed = TRUE
    /\ CacheCreated(1)

Init == \E t \in PlainTables \cup VnodeTables : InitBalancer(t)

\* the history after a change of the ring: once an EDIT was issued, the ring
\* is no longer the one it was issued under
RingChanged ==
    /\ ring_fixed' = (ring_fixed /\ issued = NoneIssued)
    /\ issued' = NoneIssued

\* the history after a request: an EDIT is the latest of its name, as long
\* as no task queue has reached MAX_TASK_QUEUE_SIZE
BelowBound(h) == \A i \in DOMAIN h : q_get_size(h[i].task_queue) < MAX_TASK_QUEUE_SIZE

Requested(type, doc_name, doc_content, h) ==
    /\ ring_fixed' = (ring_fixed /\ BelowBound(h))
    /\ issued' = IF ~(ring_fixed /\ BelowBound(h)) THEN NoneIssued
                 ELSE IF type = "EDIT_DOCUMENT"
                 THEN [issued EXCEPT ![doc_name] = doc_content]
                 ELSE issued

\* the state after loader_add_server gave r
Added(r) ==
    /\ heap' = r.heap
    /\ servers' = r.servers
    /\ printed' = r.out

AddServer(server_id, size) ==
    /\ ~crashed
    /\ server_id \notin {Family(e) : e \in DOMAIN heap}
    /\ Added(loader_add_server(heap, servers, server_id, size))
    /\ max_servers' = Grown(Len(servers), max_servers)
    /\ res' = NoResponse
    /\ op' = Op("add_server", server_id, NULL)
    /\ RingChanged
    /\ UNCHANGED <<enable_vnodes, hash_uint, hash_string, crashed, cache_vars>>

\* loader_add_server on the empty ring, lines 318-326, stores the family
\* without the reallocation of lines 329-333: with more entries than
\* max_servers the stores run past the end of main->servers. AddServer is
\* the outcome in which the stores land in memory nothing else uses; this
\* is the outcome in which the process faults
AddServerOverflow(server_id, size) ==
    /\ ~crashed
    /\ server_id \notin {Family(e) : e \in DOMAIN heap}
    /\ Len(servers) + Cardinality(FamilyIds(server_id))
           > Grown(Len(servers), max_servers)
    /\ crashed' = TRUE
    /\ printed' = <<>>
    /\ res' = NoResponse
    /\ op' = Op("add_server", server_id, NULL)
    /\ RingChanged
    /\ UNCHANGED <<enable_vnodes, hash_uint, hash_string, servers,
                   max_servers, heap, cache_vars>>

\* the state after loader_remove_server gave r
Removed(r) ==
    /\ heap' = r.heap
    /\ servers' = r.servers
    /\ printed' = r.out
    /\ crashed' = r.crashed
    /\ max_servers' = IF r.crashed THEN max_servers
                      ELSE Shrunk(Len(r.servers), max_servers)

RemoveServer(server_id) ==
    /\ ~crashed
    /\ Removed(loader_remove_server(heap, servers, server_id))
    /\ res' = NoResponse
    /\ op' = Op("remove_server", server_id, NULL)
    /\ RingChanged
    /\ UNCHANGED <<enable_vnodes, hash_uint, hash_string, cache_vars>>

\* loader_remove_server without virtual nodes on the only server of the
\* ring: next_s of line 408 is the departing server, and lru_cache_put on
\* its own database frees the value that line 423 has just read
\* (lru_cache.c:341-342) and copies it. RemoveServer is the outcome in which
\* the freed bytes are still there; this is the outcome in which the
\* process faults on them
RemoveServerSelfCopy(server_id) ==
    /\ ~crashed
    /\ ~enable_vnodes
    /\ servers = <<server_id>>
    /\ get_all_keys(execute_edit_tasks_for_document(heap, server_id).heap,
                    server_id) # <<>>
    /\ heap' = execute_edit_tasks_for_document(heap, server_id).heap
    /\ printed' = execute_edit_tasks_for_document(heap, server_id).out
    /\ crashed' = TRUE
    /\ res' = NoResponse
    /\ op' = Op("remove_server", server_id, NULL)
    /\ RingChanged
    /\ UNCHANGED <<enable_vnodes, hash_uint, hash_string, servers,
                   max_servers, cache_vars>>

\* the state after server_handle_request gave r
Handled(r) ==
    /\ heap' = r.heap
    /\ printed' = r.out
    /\ res' = r.resp

\* loader_forward_request, lines 468-481, with target_server as it stands
\* after the search
ForwardTo(target, type, doc_name, doc_content) ==
    /\ Handled(loader_forward_request(heap, servers, target,
                                      Request(type, doc_name, doc_content)))
    /\ op' = Op(type, ReplicaTarget(servers, target, type, hash_string[doc_name]),
                doc_name)
    /\ Requested(type, doc_name, doc_content, heap')

\* loader_forward_request with a target_server the search has set
Forward(type, doc_name, doc_content) ==
    /\ ~crashed
    /\ servers # <<>>
    /\ SearchTarget(heap, servers, hash_string[doc_name]) # NULL_SERVER
    /\ ForwardTo(SearchTarget(heap, servers, hash_string[doc_name]),
                 type, doc_name, doc_content)
    /\ UNCHANGED <<enable_vnodes, hash_uint, hash_string, servers,
                   max_servers, crashed, cache_vars>>

\* loader_forward_request when no entry's hash exceeds the document's and the
\* last entry's equals it: target_server is read uninitialised.  It holds
\* what the stack held.  Here it is an address on which the read at line 468
\* faults
ForwardUninitFault(type, doc_name, doc_content) ==
    /\ ~crashed
    /\ servers # <<>>
    /\ SearchTarget(heap, servers, hash_string[doc_name]) = NULL_SERVER
    /\ crashed' = TRUE
    /\ printed' = <<>>
    /\ res' = NoResponse
    /\ op' = Op(type, NULL_SERVER, doc_name)
    /\ Requested(type, doc_name, doc_content, heap)
    /\ UNCHANGED <<enable_vnodes, hash_uint, hash_string, servers,
                   max_servers, heap, cache_vars>>

\* the same read, when the stack held the address of the server `garbage`
ForwardUninitServer(type, doc_name, doc_content, garbage) ==
    /\ ~crashed
    /\ servers # <<>>
    /\ SearchTarget(heap, servers, hash_string[doc_name]) = NULL_SERVER
    /\ ForwardTo(garbage, type, doc_name, doc_content)
    /\ UNCHANGED <<enable_vnodes, hash_uint, hash_string, servers,
                   max_servers, crashed, cache_vars>>

Edit(doc_name, doc_content) == Forward("EDIT_DOCUMENT", doc_name, doc_content)

Get(doc_name) == Forward("GET_DOCUMENT", doc_name, NULL)

EditUninit(doc_name, doc_content) ==
    \/ ForwardUninitFault("EDIT_DOCUMENT", doc_name, doc_content)
    \/ \E garbage \in DOMAIN heap :
          ForwardUninitServer("EDIT_DOCUMENT", doc_name, doc_content, garbage)

GetUninit(doc_name) ==
    \/ ForwardUninitFault("GET_DOCUMENT", doc_name, NULL)
    \/ \E garbage \in DOMAIN heap :
          ForwardUninitServer("GET_DOCUMENT", doc_name, NULL, garbage)

Next ==
    \/ \E id \in ServerIds, size \in 1..MaxCacheSize : AddServer(id, size)
    \/ \E id \in ServerIds, size \in 1..MaxCacheSize : AddServerOverflow(id, size)
    \/ \E id \in ServerIds \cup {UnknownId} : RemoveServer(id)
    \/ \E id \in ServerIds : RemoveServerSelfCopy(id)
    \/ \E d \in Docs, c \in Contents : Edit(d, c)
    \/ \E d \in Docs : Get(d)
    \/ \E d \in Docs, c \in Contents : EditUninit(d, c)
    \/ \E d \in Docs : GetUninit(d)

Spec == Init /\ [][Next]_vars

----------------------------------------------------------------------------
(* The cache alone: put, get and remove on one cache, one call per step *)

\* the hashes of the keys "x", "y", "z": three buckets apart, all in one
\* bucket, and two sharing a bucket
CacheHashes == {StringTable(<<0, 1, 2>>), StringTable(<<3, 3, 3>>),
                StringTable(<<1, 4, 2>>)}

\* a balancer without servers, and a cache of capacity 1 .. MaxCapacity
CacheInit ==
    /\ \E t \in CacheHashes : hash_string = t
    /\ \E cache_capacity \in 1..MaxCapacity : CacheCreated(cache_capacity)
    /\ enable_vnodes = FALSE
    /\ hash_uint = [i \in {} |-> 0]
    /\ servers = <<>>
    /\ max_servers = MAX_SERVERS
    /\ heap = [i \in {} |-> 0]
    /\ printed = <<>>
    /\ res = NoResponse
    /\ op = Op("init", 0, NULL)
    /\ crashed = FALSE
    /\ issued = NoneIssued
    /\ ring_fixed = TRUE

balancer_vars == <<enable_vnodes, hash_uint, hash_string, servers, max_servers,
                   heap, printed, res, op, crashed, issued, ring_fixed>>

\* the state after lru_cache_put(lru, key, value, &evicted_key) gave p
PutDone(key, value, p) ==
    /\ lru' = p.cache
    /\ lru_op' = CacheCall("put", key, value, p.ret, p.evicted_key, NULL,
                            key \in KeySet(lru))
    /\ put_value' = [put_value EXCEPT ![key] = value]

CachePut(key, value) ==
    /\ PutDone(key, value, lru_cache_put(lru, key, value))
    /\ UNCHANGED balancer_vars

\* the state after lru_cache_get(lru, key) gave g
GetDone(key, g) ==
    /\ lru' = g.cache
    /\ lru_op' = CacheCall("get", key, NULL, FALSE, NULL, g.value,
                            key \in KeySet(lru))

CacheGet(key) ==
    /\ GetDone(key, lru_cache_get(lru, key))
    /\ UNCHANGED <<balancer_vars, put_value>>

CacheRemove(key) ==
    /\ lru' = lru_cache_remove(lru, key)
    /\ lru_op' = CacheCall("remove", key, NULL, FALSE, NULL, NULL,
                            key \in KeySet(lru))
    /\ UNCHANGED <<balancer_vars, put_value>>

CacheNext ==
    \/ \E k \in Docs, v \in Contents : CachePut(k, v)
    \/ \E k \in Docs : CacheGet(k)
    \/ \E k \in Docs : CacheRemove(k)

CacheSpec == CacheInit /\ [][CacheNext]_vars

----------------------------------------------------------------------------
(* What the claims observe *)

\* the servers that own storage
Primaries(h) == {i \in DOMAIN h : h[i].original_server = NULL_SERVER}

\* the names in the database of p
Stored(h, p) == {get_all_keys(h, p)[k] : k \in 1..Len(get_all_keys(h, p))}

\* the value a cache or a database holds for key, NULL when it holds none
ValueOf(cache, key) == lru_cache_get(cache, key).value

\* the names the pending edits of p name, and the content of the last
\* pending edit of d
Pending(h, p) ==
    {h[p].task_queue[k].doc_name : k \in 1..Len(h[p].task_queue)}

LastPending(h, p, d) ==
    h[p].task_queue[CHOOSE k \in 1..Len(h[p].task_queue) :
                       /\ h[p].task_queue[k].doc_name = d
                       /\ \A j \in (k + 1)..Len(h[p].task_queue) :
                             h[p].task_queue[j].doc_name # d].doc_content

\* the value the database of p holds for d once the queue of p is flushed
FlushedValue(h, p, d) ==
    ValueOf(execute_edit_tasks_for_document(h, p).heap[p].local_db, d)

\* the body a GET of d forwarded by the balancer returns from the heap h and
\* the ring: NULL with the fault log; "UNDEFINED" when target_server is
\* read uninitialised, "NO_SERVER" on the empty ring
Retrieve(h, ring, d) ==
    IF ring = <<>> THEN "NO_SERVER"
    ELSE IF SearchTarget(h, ring, hash_string[d]) = NULL_SERVER THEN "UNDEFINED"
    ELSE loader_forward_request(
             h, ring, SearchTarget(h, ring, hash_string[d]),
             Request("GET_DOCUMENT", d, NULL)).resp.server_response.text

\* the entry after position i of the ring, going round
Clockwise(ring, i) == IF i = Len(ring) THEN ring[1] ELSE ring[i + 1]

\* every document a GET returned before the step, it returns after it, with
\* the same content
StillRetrieved ==
    \A d \in Docs :
        Retrieve(heap, servers, d) \in Contents
            => Retrieve(heap', servers', d) = Retrieve(heap, servers, d)

TopologyCalls == {"add_server", "remove_server"}

----------------------------------------------------------------------------
(* The claims *)

\* C1: with a fixed ring and below the bound of the task queues, a GET
\* returns the content of the latest EDIT of its name, and the fault log with
\* an empty body iff the name was never edited
C1_GetReturnsLatestEdit ==
    (op.type = "GET_DOCUMENT" /\ ring_fixed) =>
        /\ ~crashed
        /\ IF issued[op.doc] = NULL
           THEN /\ res.server_log.kind = "FAULT"
                /\ res.server_response.text = NULL
           ELSE /\ res.server_log.kind # "FAULT"
                /\ res.server_response.text = issued[op.doc]

\* C2: a GET handled by a server drains the whole queue of its primary: one
\* edit response per pending edit, in the order of the queue, each edit
\* applied in that order (the last edit of a name is the one stored), and the
\* queue is empty when the GET returns
C2_GetDrainsQueue ==
    [][(op'.type = "GET_DOCUMENT" /\ ~crashed') =>
          /\ heap'[Primary(heap, op'.id)].task_queue = <<>>
          /\ Len(printed') = Len(heap[Primary(heap, op'.id)].task_queue)
          /\ \A k \in 1..Len(printed') :
                /\ printed'[k].server_log.kind \in {"HIT", "MISS", "EVICT"}
                /\ printed'[k].server_log.doc =
                       heap[Primary(heap, op'.id)].task_queue[k].doc_name
                /\ printed'[k].server_response.text =
                       heap[Primary(heap, op'.id)].task_queue[k].doc_name
          /\ \A d \in Pending(heap, Primary(heap, op'.id)) :
                ValueOf(heap'[Primary(heap, op'.id)].local_db, d) =
                    LastPending(heap, Primary(heap, op'.id), d)
          /\ res'.server_log.kind # "LAZY_EXEC"]_vars

\* C2, the case: a GET has drained a queue of two edits of different names
C2_Witness ==
    /\ op.type = "GET_DOCUMENT"
    /\ ~crashed
    /\ Len(printed) = 2
    /\ printed[1].server_log.doc # printed[2].server_log.doc
    /\ heap[Primary(heap, op.id)].task_queue = <<>>

\* what an EDIT leaves alone: every cache, every database and the queues of
\* the other primaries
EditFrame ==
    \A i \in DOMAIN heap :
        /\ heap'[i].cache = heap[i].cache
        /\ heap'[i].local_db = heap[i].local_db
        /\ i # Primary(heap, op'.id) => heap'[i].task_queue = heap[i].task_queue

\* the EDIT of the step is at the tail of the queue of the primary, and the
\* lazy log names the previous depth plus one
Enqueued ==
    /\ \E c \in Contents :
          heap'[Primary(heap, op'.id)].task_queue =
              Append(heap[Primary(heap, op'.id)].task_queue,
                     Request("EDIT_DOCUMENT", op'.doc, c))
    /\ res'.server_log.kind = "LAZY_EXEC"
    /\ res'.server_log.depth = Len(heap[Primary(heap, op'.id)].task_queue) + 1

\* C3 as stated: an EDIT changes no cache and no database, appends the
\* request at the tail of the queue of the owning primary, and its lazy log
\* names the previous depth plus one
C3_EditOnlyEnqueues ==
    [][(op'.type = "EDIT_DOCUMENT" /\ ~crashed') => EditFrame /\ Enqueued]_vars

\* C3 amended: an EDIT changes no cache and no database; below the bound of
\* the queue it appends the request and the log names the previous depth
\* plus one; on a full queue the request is dropped, the queue is unchanged
\* and the log names the bound
C3_EditEnqueuesBelowBound ==
    [][(op'.type = "EDIT_DOCUMENT" /\ ~crashed') =>
          /\ EditFrame
          /\ IF Len(heap[Primary(heap, op'.id)].task_queue) < MAX_TASK_QUEUE_SIZE
             THEN Enqueued
             ELSE /\ heap'[Primary(heap, op'.id)].task_queue =
                        heap[Primary(heap, op'.id)].task_queue
                  /\ res'.server_log.kind = "LAZY_EXEC"
                  /\ res'.server_log.depth = MAX_TASK_QUEUE_SIZE]_vars

\* C3, the case: an EDIT of a name met a full queue whose tail names another
\* document, and was answered with the bound as depth
C3_Witness ==
    /\ op.type = "EDIT_DOCUMENT"
    /\ ~crashed
    /\ res.server_log.depth = MAX_TASK_QUEUE_SIZE
    /\ Len(heap[Primary(heap, op.id)].task_queue) = MAX_TASK_QUEUE_SIZE
    /\ heap[Primary(heap, op.id)].task_queue[MAX_TASK_QUEUE_SIZE].doc_name # op.doc

\* C4: without virtual nodes, every document a GET returned before
\* add_server is returned after it with the same content
C4_AddKeepsDocuments ==
    [][(op'.type = "add_server" /\ ~enable_vnodes) => StillRetrieved]_vars

\* C5: with virtual nodes, every document a GET returned before add_server
\* is returned after it with the same content, and every such document whose
\* owner in the updated ring is of the new family is in the database of the
\* new primary
C5_AddKeepsDocumentsVnodes ==
    [][(op'.type = "add_server" /\ enable_vnodes) =>
          /\ StillRetrieved
          /\ \A d \in Docs :
                (/\ Retrieve(heap, servers, d) \in Contents
                 /\ Family(SearchTarget(heap', servers', hash_string[d])) = op'.id)
                    => d \in Stored(heap', op'.id)]_vars

\* C6: without virtual nodes and with two servers or more, after
\* remove_server every document stored on or pending for the removed server
\* is in the database of its clockwise neighbour, and every document a GET
\* returned before is returned after with the same content
C6_RemoveMovesToNeighbour ==
    [][(/\ op'.type = "remove_server"
        /\ ~enable_vnodes
        /\ Len(servers) >= 2
        /\ op'.id \in DOMAIN heap) =>
          /\ ~crashed'
          /\ \A d \in Stored(heap, op'.id) \cup Pending(heap, op'.id) :
                d \in Stored(heap', Clockwise(servers,
                                             find_server_index(servers, op'.id)))
          /\ StillRetrieved]_vars

\* C7: with virtual nodes and another family in the ring, remove_server
\* flushes the queue of the departing primary (a response per pending edit)
\* and every document of its flushed database is in the database of a
\* surviving primary and returned by GET, with the same content
C7_RemoveCopiesVnodes ==
    [][(/\ op'.type = "remove_server"
        /\ enable_vnodes
        /\ op'.id \in DOMAIN heap
        /\ Primaries(heap) # {op'.id}) =>
          /\ ~crashed'
          /\ Len(printed') = Len(heap[op'.id].task_queue)
          /\ \A d \in Stored(heap, op'.id) \cup Pending(heap, op'.id) :
                /\ \E p \in Primaries(heap') :
                      ValueOf(heap'[p].local_db, d) = FlushedValue(heap, op'.id, d)
                /\ Retrieve(heap', servers', d) = FlushedValue(heap, op'.id, d)]_vars

\* the heap after add_server(id, size) immediately followed by
\* remove_server(id)
AddThenRemove(a, id) == loader_remove_server(a.heap, a.servers, id)

\* C8: on a ring that holds a server, add_server(id, c) immediately followed
\* by remove_server(id) leaves every document in the database of the same
\* primary with the same content (queues flushed), with or without virtual
\* nodes
C8_AddThenRemoveRestores ==
    (servers # <<>> /\ ~crashed) =>
        \A id \in ServerIds \ {Family(e) : e \in DOMAIN heap},
           size \in 1..MaxCacheSize :
            /\ ~AddThenRemove(loader_add_server(heap, servers, id, size), id).crashed
            /\ \A p \in Primaries(heap), d \in Docs :
                  FlushedValue(
                      AddThenRemove(loader_add_server(heap, servers, id, size),
                                    id).heap, p, d)
                  = FlushedValue(heap, p, d)

\* C9: no pending edit is lost by add_server or remove_server: a document
\* whose latest edit is pending in a queue before the call is returned by a
\* GET after the call with the content of that edit
C9_NoPendingEditLost ==
    [][(op'.type \in TopologyCalls /\ servers' # <<>>) =>
          /\ ~crashed'
          /\ \A p \in Primaries(heap) :
                \A d \in Pending(heap, p) :
                    Retrieve(heap, servers, d) = LastPending(heap, p, d)
                        => Retrieve(heap', servers', d) = LastPending(heap, p, d)]_vars

\* C10: after add_server or remove_server, no document name is in the
\* databases of two different primaries
C10_NoNameInTwoDatabases ==
    (op.type \in TopologyCalls /\ ~crashed) =>
        \A d \in Docs :
            Cardinality({p \in Primaries(heap) : d \in Stored(heap, p)}) <= 1

----------------------------------------------------------------------------
(* The claims on the ring *)

Requests == {"EDIT_DOCUMENT", "GET_DOCUMENT"}

\* the first entry of the ring, in ring order, whose hash is strictly greater
\* than hash, and the entry at index 0 when there is none
FirstAbove(h, ring, hash) ==
    IF \E i \in 1..Len(ring) : h[ring[i]].hash > hash
    THEN ring[CHOOSE i \in 1..Len(ring) :
                 /\ h[ring[i]].hash > hash
                 /\ \A j \in 1..(i - 1) : ~(h[ring[j]].hash > hash)]
    ELSE ring[1]

\* C11: on a non-empty ring a request is forwarded to the first ring entry
\* whose hash is strictly greater than the hash of the document, and to the
\* entry at index 0 when no hash is greater (the hash of the document may
\* equal the largest hash of the ring); a target is always selected
C11_ForwardSelectsFirstAbove ==
    (op.type \in Requests /\ servers # <<>>) =>
        /\ ~crashed
        /\ op.id = FirstAbove(heap, servers, hash_string[op.doc])

\* (hash, id) of the entry a is not after (hash, id) of the entry b
RingOrder(h, a, b) ==
    \/ h[a].hash < h[b].hash
    \/ h[a].hash = h[b].hash /\ h[a].server_id <= h[b].server_id

\* C12: after any sequence of add_server and remove_server the ring is
\* sorted by hash ascending and, among equal hashes, by server_id ascending,
\* whatever the hash of an inserted entry (0, or the hash of an entry in the
\* middle of the ring)
C12_RingSorted ==
    ~crashed =>
        \A i \in 1..Len(servers), j \in 1..Len(servers) :
            i < j => RingOrder(heap, servers[i], servers[j])

\* C13: after remove_server(id) returns no ring entry has server_id mod
\* 100000 = id, the ring has shrunk by the number of such entries, and the
\* other entries are in the ring in the order they were in
C13_RemoveTakesFamilyOut ==
    [][(op'.type = "remove_server" /\ ~crashed') =>
          /\ \A i \in 1..Len(servers') : servers'[i] % REPLICA_OFFSET # op'.id
          /\ Len(servers') = Len(servers)
                - Cardinality({i \in 1..Len(servers) :
                                  servers[i] % REPLICA_OFFSET = op'.id})
          /\ servers' = SelectSeq(servers,
                                  LAMBDA e : e % REPLICA_OFFSET # op'.id)]_vars

\* C13, the case: with virtual nodes, remove_server has flushed pending
\* edits of the family it removed and has left another family in the ring
C13_Witness ==
    /\ op.type = "remove_server"
    /\ ~crashed
    /\ enable_vnodes
    /\ printed # <<>>
    /\ Len(servers) >= 3
    /\ \A i \in 1..Len(servers) : Family(servers[i]) # op.id

\* C14: remove_server with an id that matches no ring entry changes neither
\* the ring nor the cache, database and task queue of any server, and
\* returns normally
C14_RemoveUnknownIsNoOp ==
    [][(/\ op'.type = "remove_server"
        /\ \A i \in 1..Len(servers) : Family(servers[i]) # op'.id) =>
          /\ servers' = servers
          /\ heap' = heap
          /\ printed' = <<>>
          /\ ~crashed']_vars

\* C14, the case: remove_server was called with an id that was never added,
\* on a ring whose servers hold a document and a pending edit
C14_Witness ==
    /\ op.type = "remove_server"
    /\ op.id = UnknownId
    /\ ~crashed
    /\ \E p \in Primaries(heap) : Stored(heap, p) # {}
    /\ \E p \in Primaries(heap) : heap[p].task_queue # <<>>

----------------------------------------------------------------------------
(* The claims on the cache alone, under CacheSpec *)

\* the keys of the recency list of a cache, from the least recently used
IndexKeys(cache) == [k \in 1..Len(cache.index) |-> cache.index[k].key]

\* the recency list without the node of `key`
Others(index, key) == SelectSeq(index, LAMBDA e : e.key # key)

\* the recency node of a key and its value
Node(key, value) == [key |-> key, value |-> value]

\* C15: after any sequence of put, get and remove on a cache of capacity
\* C >= 1, size <= C, and size is the number of entries in the bucket chains
\* and the number of nodes of the recency list
C15_SizeWithinCapacity ==
    /\ lru.capacity >= 1
    /\ lru.size <= lru.capacity
    /\ lru.size = Len(ChainKeys(lru))
    /\ lru.size = Len(lru.index)

\* C15, the case: a remove has taken a key out of a cache of capacity
\* MaxCapacity into which every key had been put
C15_Witness ==
    /\ lru_op.type = "remove"
    /\ lru_op.present
    /\ lru.capacity = MaxCapacity
    /\ lru.size = MaxCapacity - 1
    /\ \A k \in Docs : put_value[k] # NULL

\* C16: the keys of the bucket chains are the keys of the recency list, each
\* key is once in each, every key sits in the bucket hash(key) mod capacity,
\* and every bucket entry's back-reference points to the recency node that
\* holds its key
C16_BucketsMatchIndex ==
    /\ KeySet(lru) = {IndexKeys(lru)[k] : k \in 1..Len(lru.index)}
    /\ Len(ChainKeys(lru)) = Cardinality(KeySet(lru))
    /\ Len(lru.index) = Cardinality(KeySet(lru))
    /\ \A b \in DOMAIN lru.buckets :
          \A p \in 1..Len(lru.buckets[b]) :
              /\ BucketOf(lru, lru.buckets[b][p].key) = b
              /\ lru.buckets[b][p].pointer_to_node = lru.buckets[b][p].key
              /\ KeyPos(lru.index, lru.buckets[b][p].pointer_to_node) # 0

\* C16, the case: a get has hit a key whose bucket chain holds another key
C16_Witness ==
    /\ lru_op.type = "get"
    /\ lru_op.present
    /\ Len(Chain(lru, BucketOf(lru, lru_op.key))) >= 2
    /\ lru.index[1].key # lru_op.key

\* C17: a put of a key not in the cache, on a full cache, evicts exactly the
\* head of the recency list, hands its key back through evicted_key, puts the
\* new key at the most recently used end and leaves size = capacity; below
\* capacity it evicts nothing and size grows by one
C17_PutNewEvictsHead ==
    [][(lru_op'.type = "put" /\ lru_op'.key \notin KeySet(lru)) =>
          IF lru.size = lru.capacity
          THEN /\ lru_op'.evicted_key = lru.index[1].key
               /\ lru'.index = Append(Tail(lru.index),
                                      Node(lru_op'.key, lru_op'.value))
               /\ KeySet(lru') = (KeySet(lru) \ {lru.index[1].key})
                                     \cup {lru_op'.key}
               /\ lru'.size = lru.capacity
          ELSE /\ lru_op'.evicted_key = NULL
               /\ lru'.index = Append(lru.index, Node(lru_op'.key, lru_op'.value))
               /\ KeySet(lru') = KeySet(lru) \cup {lru_op'.key}
               /\ lru'.size = lru.size + 1]_vars

\* C17, the case: a put of a new key has evicted the head of a full cache
\* that held two keys at least
C17_Witness ==
    /\ lru_op.type = "put"
    /\ ~lru_op.present
    /\ lru_op.evicted_key # NULL
    /\ lru.capacity >= 2
    /\ lru.size = lru.capacity
    /\ lru.index[Len(lru.index)].key = lru_op.key

\* C18: a put of a key already in the cache replaces its value, makes it the
\* most recently used entry, keeps the order of the other entries, leaves
\* size unchanged and evicts nothing, even when the cache is full
C18_PutExistingReplaces ==
    [][(lru_op'.type = "put" /\ lru_op'.key \in KeySet(lru)) =>
          /\ lru_cache_get(lru', lru_op'.key).value = lru_op'.value
          /\ lru'.index = Append(Others(lru.index, lru_op'.key),
                                 Node(lru_op'.key, lru_op'.value))
          /\ KeySet(lru') = KeySet(lru)
          /\ lru'.size = lru.size
          /\ lru_op'.evicted_key = NULL]_vars

\* C18, the case: a put has replaced the value of a key of a full cache of
\* two keys at least
C18_Witness ==
    /\ lru_op.type = "put"
    /\ lru_op.present
    /\ lru.capacity >= 2
    /\ lru.size = lru.capacity
    /\ \E k \in Docs \ {lru_op.key} : put_value[k] # put_value[lru_op.key]

\* C19: lru_cache_put returns false when the key was in the cache and true
\* when a new entry was added
C19_PutReturnsWhetherAdded ==
    lru_op.type = "put" => (lru_op.ret = ~lru_op.present)

\* C20: a get of a key in the cache returns the value of the latest put of
\* the key and makes it the most recently used entry, size and the order of
\* the other entries unchanged; a get of an absent key returns NULL and
\* leaves the cache as it was
C20_GetPromotes ==
    [][(lru_op'.type = "get") =>
          IF lru_op'.key \in KeySet(lru)
          THEN /\ lru_op'.result = put_value[lru_op'.key]
               /\ lru'.index = Append(Others(lru.index, lru_op'.key),
                                      Node(lru_op'.key, lru_op'.result))
               /\ KeySet(lru') = KeySet(lru)
               /\ lru'.size = lru.size
          ELSE /\ lru_op'.result = NULL
               /\ lru' = lru]_vars

\* C20, the case: a get has promoted the least recently used key of a cache
\* of two keys at least
C20_Witness ==
    /\ lru_op.type = "get"
    /\ lru_op.present
    /\ lru_op.result # NULL
    /\ lru.size >= 2
    /\ lru.index[Len(lru.index)].key = lru_op.key

\* C21: a remove of a key in the cache erases it from its bucket chain and
\* from the recency list, decreases size by one and keeps the other entries
\* and their recency order, so that a get of the key then returns NULL; a
\* remove of an absent key changes nothing
C21_RemoveErases ==
    [][(lru_op'.type = "remove") =>
          IF lru_op'.key \in KeySet(lru)
          THEN /\ KeySet(lru') = KeySet(lru) \ {lru_op'.key}
               /\ lru'.index = Others(lru.index, lru_op'.key)
               /\ Len(lru'.index) = Len(lru.index) - 1
               /\ lru'.size = lru.size - 1
               /\ \A k \in KeySet(lru') :
                     lru_cache_get(lru', k).value = lru_cache_get(lru, k).value
               /\ lru_cache_get(lru', lru_op'.key).value = NULL
          ELSE lru' = lru]_vars

\* C21, the case: a remove has erased a key of a cache that held three
\* keys, and the bucket of the key still holds another key
C21_Witness ==
    /\ lru_op.type = "remove"
    /\ lru_op.present
    /\ lru.size = 2
    /\ Len(Chain(lru, BucketOf(lru, lru_op.key))) >= 1

----------------------------------------------------------------------------
(* The claims on the server *)

\* the keys that left a cache between two of its states
Left(before, after) == KeySet(before) \ KeySet(after)

\* what C22 says of the edit (doc_name, doc_content) applied on the primary
\* s of the heap h, which gave e
EditClassified(h, s, doc_name, doc_content, e) ==
    /\ lru_cache_get(e.heap[s].cache, doc_name).value = doc_content
    /\ lru_cache_get(e.heap[s].local_db, doc_name).value = doc_content
    /\ e.resp.server_response.msg =
          (IF doc_name \notin KeySet(h[s].cache) \cup KeySet(h[s].local_db)
           THEN "MSG_C" ELSE "MSG_B")
    /\ e.resp.server_response.text = doc_name
    /\ e.resp.server_log.kind =
          (IF doc_name \in KeySet(h[s].cache) THEN "HIT"
           ELSE IF Left(h[s].cache, e.heap[s].cache) # {} THEN "EVICT"
           ELSE "MISS")
    /\ e.resp.server_log.kind = "EVICT" =>
          Left(h[s].cache, e.heap[s].cache) = {e.resp.server_log.evicted}

\* every edit of the queue of serv's primary, applied in turn through serv,
\* is installed and classified as C22 says
RECURSIVE EditsClassified(_, _)
EditClassifiedNext(h, serv, req, e) ==
    /\ EditClassified(h, Primary(h, serv), req.doc_name, req.doc_content, e)
    /\ EditsClassified(e.heap, serv)

EditsClassified(h, serv) ==
    IF q_get_size(h[Primary(h, serv)].task_queue) = 0 THEN TRUE
    ELSE EditClassifiedNext(h, serv, Head(h[Primary(h, serv)].task_queue),
                            ExecuteHead(h, serv, Primary(h, serv)))

\* C22: applying a queued edit installs the new content in the cache and in
\* the database of the primary; the body is class C iff the name was in
\* neither, else class B; the log is HIT iff the name was in the cache, else
\* EVICT naming the evicted key iff the install into the cache evicted, else
\* MISS
C22_EditInstallsAndClassifies ==
    ~crashed => \A serv \in DOMAIN heap : EditsClassified(heap, serv)

\* C22, the case: a flush has applied two edits, one answered with the
\* eviction of another document and one with class B
C22_Witness ==
    /\ ~crashed
    /\ Len(printed) = 2
    /\ \E k \in 1..2 :
          /\ printed[k].server_log.kind = "EVICT"
          /\ printed[k].server_log.evicted # printed[k].server_log.doc
    /\ \E k \in 1..2 : printed[k].server_response.msg = "MSG_B"

\* what C23 says of the read of doc_name on the primary s of the heap h,
\* which gave g
GetClassified(h, s, doc_name, g) ==
    IF doc_name \in KeySet(h[s].cache)
    THEN /\ g.resp.server_log.kind = "HIT"
         /\ g.resp.server_response.text =
               lru_cache_get(h[s].cache, doc_name).value
    ELSE IF doc_name \in KeySet(h[s].local_db)
    THEN /\ g.resp.server_response.text =
               lru_cache_get(h[s].local_db, doc_name).value
         /\ lru_cache_get(g.heap[s].cache, doc_name).value =
               lru_cache_get(h[s].local_db, doc_name).value
         /\ g.resp.server_log.kind =
               (IF Left(h[s].cache, g.heap[s].cache) # {} THEN "EVICT" ELSE "MISS")
         /\ g.resp.server_log.kind = "EVICT" =>
               Left(h[s].cache, g.heap[s].cache) = {g.resp.server_log.evicted}
    ELSE /\ g.resp.server_log.kind = "FAULT"
         /\ g.resp.server_response.text = NULL
         /\ KeySet(g.heap[s].cache) = KeySet(h[s].cache)
         /\ KeySet(g.heap[s].local_db) = KeySet(h[s].local_db)

\* the read of doc_name through serv, on the flushed heap f.heap
ReadClassified(f, serv, doc_name) ==
    GetClassified(f.heap, Primary(f.heap, serv), doc_name,
                  server_get_document(f.heap, serv, doc_name))

\* C23: after the flush, a read gives HIT and the cached content on a cache
\* hit; on a cache miss with a database hit the database content, the
\* document installed in the cache, and EVICT iff the install evicted, else
\* MISS; on a miss in both FAULT, an empty body and no entry created
C23_GetClassifies ==
    ~crashed =>
        \A serv \in DOMAIN heap, d \in Docs :
            ReadClassified(execute_edit_tasks_for_document(heap, serv), serv, d)

\* C23, the case: a GET has found its document in the database only and the
\* install into the cache has evicted another document
C23_Witness ==
    /\ op.type = "GET_DOCUMENT"
    /\ ~crashed
    /\ printed = <<>>
    /\ res.server_log.kind = "EVICT"
    /\ res.server_log.evicted # op.doc
    /\ res.server_response.text \in Contents

\* C24: when the queue of the owning primary already holds
\* MAX_TASK_QUEUE_SIZE pending edits, a further EDIT is dropped: the queue and
\* its depth are unchanged, a later flush applies the edits that were pending
\* and no other, and the caller receives the response of an EDIT
C24_FullQueueDropsEdit ==
    [][(/\ op'.type = "EDIT_DOCUMENT"
        /\ ~crashed'
        /\ q_get_size(heap[Primary(heap, op'.id)].task_queue)
              = MAX_TASK_QUEUE_SIZE) =>
          /\ heap'[Primary(heap, op'.id)].task_queue
                = heap[Primary(heap, op'.id)].task_queue
          /\ q_get_size(heap'[Primary(heap, op'.id)].task_queue)
                = MAX_TASK_QUEUE_SIZE
          /\ execute_edit_tasks_for_document(heap', op'.id)
                = execute_edit_tasks_for_document(heap, op'.id)
          /\ res'.server_log.kind = "LAZY_EXEC"
          /\ res'.server_response.msg = "MSG_A"
          /\ res'.server_response.text = op'.doc
          /\ res'.server_id = op'.id]_vars

\* C24, the case: an EDIT of a document that no pending edit names has met
\* a full queue
C24_Witness ==
    /\ op.type = "EDIT_DOCUMENT"
    /\ ~crashed
    /\ q_get_size(heap[Primary(heap, op.id)].task_queue) = MAX_TASK_QUEUE_SIZE
    /\ op.doc \notin Pending(heap, Primary(heap, op.id))

\* a cache or a database that holds nothing
Unused(cache) ==
    /\ cache.size = 0
    /\ cache.index = <<>>
    /\ KeySet(cache) = {}

\* C25: with virtual nodes, in every reachable state the cache, the
\* database and the task queue of a replica are empty: requests, flushes and
\* migrations that reach a replica use the storage of its primary
C25_ReplicasHoldNothing ==
    enable_vnodes =>
        \A i \in DOMAIN heap :
            heap[i].original_server # NULL_SERVER =>
                /\ Unused(heap[i].cache)
                /\ Unused(heap[i].local_db)
                /\ heap[i].task_queue = <<>>

\* C25, the case: a replica has handled a GET that flushed a pending edit
\* and returned the document
C25_Witness ==
    /\ enable_vnodes
    /\ ~crashed
    /\ op.type = "GET_DOCUMENT"
    /\ op.id \in DOMAIN heap
    /\ heap[op.id].original_server # NULL_SERVER
    /\ printed # <<>>
    /\ res.server_response.text \in Contents

----------------------------------------------------------------------------
(* The claims on migration *)

\* the names in the database of p once the queue of p is flushed
StoredFlushed(h, p) == Stored(execute_edit_tasks_for_document(h, p).heap, p)

\* the key K of the donor S is, after the step, in the database of N alone
\* when N is its owner under the updated ring, and in that of S alone
\* otherwise
MovedIffOwned(K, N, S) ==
    IF FirstAbove(heap', servers', hash_string[K]) = N
    THEN K \in Stored(heap', N) /\ K \notin Stored(heap', S)
    ELSE K \in Stored(heap', S) /\ K \notin Stored(heap', N)

\* C26: without virtual nodes, add_server of N into a non-empty ring, with
\* S the clockwise successor of N, moves a key of the database of S to N iff
\* N is the first entry of the updated ring whose hash is strictly greater
\* than the hash of the key (index 0 when there is none); every other key
\* stays on S, a key whose hash equals the hash of N included
C26_AddMovesOwnedKeys ==
    [][(op'.type = "add_server" /\ ~enable_vnodes /\ servers # <<>>) =>
          \A K \in StoredFlushed(
                       heap, Clockwise(servers', find_server_index(servers', op'.id))) :
              MovedIffOwned(K, op'.id,
                            Clockwise(servers', find_server_index(servers', op'.id)))]_vars

\* the first GET of K handled by p after the step misses the cache of p and
\* returns the content of the database of p
FirstGetMisses(p, K) ==
    /\ server_handle_request(heap', p, Request("GET_DOCUMENT", K, NULL))
           .resp.server_log.kind \in {"MISS", "EVICT"}
    /\ server_handle_request(heap', p, Request("GET_DOCUMENT", K, NULL))
           .resp.server_response.text = ValueOf(heap'[p].local_db, K)

\* p is the one primary that held K before the step: the donor of K when K
\* has moved
Donor(p, K) ==
    /\ K \in StoredFlushed(heap, p)
    /\ \A q \in Primaries(heap) \ {p} : K \notin StoredFlushed(heap, q)

\* add_server of N: the cache of N is empty, a key moved to N is in neither
\* the cache nor the database of its donor, and its first GET on N misses
\* the cache
AddWritesNoCache(N) ==
    /\ Unused(heap'[N].cache)
    /\ \A K \in Stored(heap', N) :
          /\ \A p \in Primaries(heap) :
                Donor(p, K) =>
                    /\ K \notin KeySet(heap'[p].cache)
                    /\ K \notin Stored(heap', p)
          /\ FirstGetMisses(N, K)

\* remove_server: the cache of every remaining primary is as before, and the
\* first GET of a key that came to a primary misses its cache
RemoveWritesNoCache ==
    \A p \in Primaries(heap') :
        /\ heap'[p].cache = heap[p].cache
        /\ \A K \in Stored(heap', p) \ StoredFlushed(heap, p) : FirstGetMisses(p, K)

C28_RingWithinCapacity == Len(servers) <= max_servers

C30_CacheCoherent ==
    ~crashed =>
        \A p \in Primaries(heap) : \A d \in KeySet(heap[p].cache) :
            /\ d \in KeySet(heap[p].local_db)
            /\ ValueOf(heap[p].cache, d) = ValueOf(heap[p].local_db, d)

----------------------------------------------------------------------------
(* The claims on forwarding *)

\* the entry that handles a request of the given type for d, from the entry
\* the search of loader_forward_request has set
HandlerOf(type, d) ==
    ReplicaTarget(servers, SearchTarget(heap, servers, hash_string[d]),
                  type, hash_string[d])

\* C31: in every reachable ring state and for every document name, an EDIT
\* and a GET of the name are handled by the same ring entry: the resolution
\* of the replica made for a GET under virtual nodes does not change the
\* entry the search has chosen, and both responses carry its server_id
C31_EditAndGetSameEntry ==
    (~crashed /\ servers # <<>>) =>
        \A d \in Docs :
            SearchTarget(heap, servers, hash_string[d]) # NULL_SERVER =>
                HandlerOf("GET_DOCUMENT", d) = HandlerOf("EDIT_DOCUMENT", d)

\* C32: a request handled by a ring entry of the family F changes the
\* storage of the primary of F only: the cache, the database and the task
\* queue of every server of another family are as before, and a GET on one
\* server does not flush the pending edits of another
C32_RequestTouchesOneFamily ==
    [][(op'.type \in Requests /\ ~crashed') =>
          \A i \in DOMAIN heap :
              Family(i) # Family(op'.id) => heap'[i] = heap[i]]_vars

\* C32, the case: a GET has flushed the pending edits of its family while
\* the primary of another family has pending edits
C32_Witness ==
    /\ op.type = "GET_DOCUMENT"
    /\ ~crashed
    /\ printed # <<>>
    /\ \E i \in DOMAIN heap :
          /\ Family(i) # Family(op.id)
          /\ heap[i].task_queue # <<>>

----------------------------------------------------------------------------
(* The claims on the neighbour of a departing server *)

\* remove_server(id) migrates documents: the family is in the ring, its
\* primary has documents once its queue is flushed and, with virtual nodes,
\* the first entry of the family in ring order is a replica (lines 410-416)
MigratesOut(id) ==
    /\ find_server_index(servers, id) # 0
    /\ StoredFlushed(heap, id) # {}
    /\ enable_vnodes =>
          heap[servers[FirstPos(servers, LAMBDA e : Family(e) = id)]]
              .original_server # NULL_SERVER

\* the entries remove_server(id) writes the documents to: without virtual
\* nodes next_s of line 408, with virtual nodes the find_next_server of
\* each entry of the family (lines 374 and 386)
Recipients(id) ==
    IF enable_vnodes
    THEN {find_next_server(servers, Len(servers), find_server_index(servers, e) - 1) :
             e \in FamilyIds(id)}
    ELSE {Clockwise(servers, find_server_index(servers, id))}

\* C33: whenever remove_server migrates the documents of a departing
\* server, the neighbour it writes to exists and is of another family than
\* the departing server: the removal of the only server, or of the only
\* family, of the ring uses no missing neighbour and does not write to the
\* departing server itself
C33_NeighbourIsAnotherFamily ==
    [][(op'.type = "remove_server" /\ MigratesOut(op'.id)) =>
          /\ ~crashed'
          /\ \A r \in Recipients(op'.id) :
                r # NULL_SERVER /\ Family(r) # op'.id]_vars

====
